---- MODULE Spec2Model ----
(***************************************************************************)
(* Model of seed_cyberpunk_db.py: a linear pipeline that lists wiki        *)
(* category members over HTTP, fetches page details, upserts pages and     *)
(* domain rows (subdistricts, cyberware, items) into a relational store,   *)
(* and writes one JSON snapshot per stage plus a manifest.                 *)
(*                                                                         *)
(* Text is modelled as TLA+ strings, character by character.               *)
(***************************************************************************)
EXTENDS Naturals, Integers, Sequences, FiniteSets, TLC

(***************************************************************************)
(* Python's None.                                                          *)
(***************************************************************************)
None == "<None>"

(***************************************************************************)
(* Text helpers: str.lower, the `in` substring test, str.join,             *)
(* str.replace(x, ""), str.strip.                                          *)
(***************************************************************************)
UpperChars == "ABCDEFGHIJKLMNOPQRSTUVWXYZ"
LowerChars == "abcdefghijklmnopqrstuvwxyz"
Digits == "0123456789"

CharAt(s, i) == SubSeq(s, i, i)

InChars(c, chars) == \E i \in 1..Len(chars) : CharAt(chars, i) = c

LowerMap ==
    [c \in {CharAt(UpperChars, i) : i \in 1..Len(UpperChars)} |->
        CharAt(LowerChars, CHOOSE i \in 1..Len(UpperChars) : CharAt(UpperChars, i) = c)]

LowerChar(c) == IF c \in DOMAIN LowerMap THEN LowerMap[c] ELSE c

\* str.lower, character by character (recursion on halves)
RECURSIVE lower(_)
lower(s) ==
    IF Len(s) = 0 THEN ""
    ELSE IF Len(s) = 1 THEN LowerChar(s)
    ELSE LET half == Len(s) \div 2
         IN lower(SubSeq(s, 1, half)) \o lower(SubSeq(s, half + 1, Len(s)))

\* needle in hay (Python's substring test; "" is in every string)
Contains(hay, needle) ==
    \E i \in 1..(Len(hay) + 1) :
        /\ i + Len(needle) - 1 <= Len(hay)
        /\ SubSeq(hay, i, i + Len(needle) - 1) = needle

RECURSIVE join(_, _)
join(sep, names) ==
    IF Len(names) = 0 THEN ""
    ELSE IF Len(names) = 1 THEN names[1]
    ELSE names[1] \o sep \o join(sep, Tail(names))

\* index of the first occurrence of needle in s, 0 when there is none
IndexOf(s, needle) ==
    IF Contains(s, needle) /\ Len(s) > 0
    THEN CHOOSE i \in 1..Len(s) :
            /\ i + Len(needle) - 1 <= Len(s)
            /\ SubSeq(s, i, i + Len(needle) - 1) = needle
            /\ \A j \in 1..(i - 1) : SubSeq(s, j, j + Len(needle) - 1) # needle
    ELSE 0

\* s.replace(old, ""), old non-empty: the occurrences from left to right
RECURSIVE remove(_, _)
remove(s, old) ==
    LET at == IndexOf(s, old)
    IN IF at = 0 THEN s
       ELSE SubSeq(s, 1, at - 1) \o remove(SubSeq(s, at + Len(old), Len(s)), old)

RECURSIVE lstrip(_, _)
lstrip(s, chars) ==
    IF Len(s) > 0 /\ InChars(CharAt(s, 1), chars)
    THEN lstrip(SubSeq(s, 2, Len(s)), chars)
    ELSE s

RECURSIVE rstrip(_, _)
rstrip(s, chars) ==
    IF Len(s) > 0 /\ InChars(CharAt(s, Len(s)), chars)
    THEN rstrip(SubSeq(s, 1, Len(s) - 1), chars)
    ELSE s

Whitespace == " \n\t"

strip(s, chars) == rstrip(lstrip(s, chars), chars)

(***************************************************************************)
(* slugify: lower-case, every run of characters outside a-z0-9 becomes one *)
(* "-", then leading and trailing "-" are stripped.                        *)
(***************************************************************************)
IsSlugChar(c) == InChars(c, LowerChars) \/ InChars(c, Digits)

\* re.sub(r"[^a-z0-9]+", "-", s): the first character of a run becomes "-",
\* the others vanish
subRuns(s) ==
    LET position(i) == SubSeq(s, IF i > 1 THEN i - 1 ELSE 1, i)
        sub(w) == LET c == CharAt(w, Len(w))
                  IN IF IsSlugChar(c) THEN c
                     ELSE IF Len(w) = 2 /\ ~IsSlugChar(CharAt(w, 1)) THEN ""
                     ELSE "-"
        RECURSIVE range(_, _)
        range(lo, hi) ==
            IF lo > hi THEN ""
            ELSE IF lo = hi THEN sub(position(lo))
            ELSE LET mid == (lo + hi) \div 2
                 IN range(lo, mid) \o range(mid + 1, hi)
    IN range(1, Len(s))

slugify(title) == strip(subRuns(lower(title)), "-")

(***************************************************************************)
(* parse_wikitext_to_summary, on the path taken when the optional markup   *)
(* parser is not installed (mwp = None): templates are removed, links are  *)
(* replaced by their display text, runs of newlines collapse, the result   *)
(* is stripped and cut to SummaryMax characters.                           *)
(***************************************************************************)
SummaryMax == 500

\* re.sub(r"\{\{.*?\}\}", "", s, flags=re.S): from each "{{" that has a "}}"
\* after it, up to the nearest such "}}"
RECURSIVE stripTemplates(_)
stripTemplates(s) ==
    LET open == IndexOf(s, "{{")
        rest == SubSeq(s, open + 2, Len(s))
        close == IndexOf(rest, "}}")
    IN IF open = 0 \/ close = 0 THEN s
       ELSE SubSeq(s, 1, open - 1) \o stripTemplates(SubSeq(rest, close + 2, Len(rest)))

\* re.sub(r"\[\[(?:[^\]|]+\|)?([^\]]+)\]\]", r"\1", s): a "[[" followed by a
\* non-empty body without "]" and by "]]" becomes the body, without its part
\* up to the first "|" when that part and the remainder are not empty
RECURSIVE replaceLinks(_)
replaceLinks(s) ==
    LET open == IndexOf(s, "[[")
        rest == SubSeq(s, open + 2, Len(s))
        close == IndexOf(rest, "]")
        body == SubSeq(rest, 1, close - 1)
        bar == IndexOf(body, "|")
    IN IF open = 0 THEN s
       ELSE IF close > 1 /\ SubSeq(rest, close, close + 1) = "]]"
       THEN SubSeq(s, 1, open - 1)
            \o (IF bar > 1 /\ bar < Len(body) THEN SubSeq(body, bar + 1, Len(body)) ELSE body)
            \o replaceLinks(SubSeq(rest, close + 2, Len(rest)))
       ELSE SubSeq(s, 1, open) \o replaceLinks(SubSeq(s, open + 1, Len(s)))

\* re.sub(r"\n{2,}", "\n", s)
RECURSIVE collapseNewlines(_)
collapseNewlines(s) ==
    LET at == IndexOf(s, "\n\n")
    IN IF at = 0 THEN s
       ELSE SubSeq(s, 1, at - 1) \o collapseNewlines(SubSeq(s, at + 1, Len(s)))

parse_wikitext_to_summary(wikitext) ==
    IF wikitext = "" THEN ""
    ELSE LET text == replaceLinks(stripTemplates(wikitext))
             clean == strip(collapseNewlines(text), Whitespace)
         IN SubSeq(clean, 1, IF Len(clean) < SummaryMax THEN Len(clean) ELSE SummaryMax)

(***************************************************************************)
(* Classification heuristics over a page's category list.  A category is   *)
(* a record with a title.                                                  *)
(***************************************************************************)
titles(cats) == [i \in 1..Len(cats) |-> cats[i].title]

KNOWN == << "Watson", "Westbrook", "City Center", "Santo Domingo",
            "Heywood", "Pacifica", "Dogtown", "Badlands" >>

\* for n in names: if k.lower() in n.lower()
RECURSIVE scanNames(_, _, _)
scanNames(k, names, i) ==
    IF i > Len(names) THEN FALSE
    ELSE IF Contains(lower(names[i]), lower(k)) THEN TRUE
    ELSE scanNames(k, names, i + 1)

\* for k in KNOWN: ... return k; return None
RECURSIVE scanKnown(_, _)
scanKnown(j, names) ==
    IF j > Len(KNOWN) THEN None
    ELSE IF scanNames(KNOWN[j], names, 1) THEN KNOWN[j]
    ELSE scanKnown(j + 1, names)

\* a variant that walks the categories in the outer loop
RECURSIVE scanCategoriesFirst(_, _)
scanCategoriesFirst(names, i) ==
    IF i > Len(names) THEN None
    ELSE IF \E j \in 1..Len(KNOWN) : Contains(lower(names[i]), lower(KNOWN[j]))
         THEN KNOWN[CHOOSE j \in 1..Len(KNOWN) :
                      /\ Contains(lower(names[i]), lower(KNOWN[j]))
                      /\ \A h \in 1..(j - 1) : ~Contains(lower(names[i]), lower(KNOWN[h]))]
         ELSE scanCategoriesFirst(names, i + 1)

extract_parent_category_major(cats) ==
    IF Len(cats) = 0 THEN None
    ELSE scanCategoriesFirst(titles(cats), 1)

extract_parent_district_from_categories(cats) ==
    IF Len(cats) = 0 THEN None
    ELSE scanKnown(1, titles(cats))

\* a variant that tests the more specific rules before the general ones
infer_slot_specific_first(cats) ==
    IF Len(cats) = 0 THEN None
    ELSE LET joined == lower(join(" | ", titles(cats)))
         IN IF Contains(joined, "cyberdecks") THEN "Operating System / Cyberdeck"
            ELSE IF Contains(joined, "sandevistan") THEN "Operating System / Sandevistan"
            ELSE IF Contains(joined, "berserk") THEN "Operating System / Berserk"
            ELSE IF Contains(joined, "operating system") THEN "Operating System"
            ELSE IF Contains(joined, "arms") THEN "Arms"
            ELSE None

infer_slot_from_categories(cats) ==
    IF Len(cats) = 0 THEN None
    ELSE LET joined == lower(join(" | ", titles(cats)))
         IN IF Contains(joined, "arms") THEN "Arms"
            ELSE IF Contains(joined, "operating system") THEN "Operating System"
            ELSE IF Contains(joined, "cyberdecks") THEN "Operating System / Cyberdeck"
            ELSE IF Contains(joined, "sandevistan") THEN "Operating System / Sandevistan"
            ELSE IF Contains(joined, "berserk") THEN "Operating System / Berserk"
            ELSE None

\* the category inference of upsert_item
infer_item_category(cats) ==
    LET joined == IF Len(cats) > 0 THEN lower(join(" | ", titles(cats))) ELSE ""
    IN IF Contains(joined, "consumables") THEN "Consumable" ELSE None

(***************************************************************************)
(* Bounds of the model.                                                    *)
(***************************************************************************)
NumPages == 2          \* remote pages
MaxRev == 2            \* revisions a remote page goes through
MaxRuns == 2           \* invocations of the script
ServerLimit == 1       \* members the server returns per listing call

PageIds == 1..NumPages
Revs == 1..MaxRev

(***************************************************************************)
(* Configuration of the script.                                            *)
(***************************************************************************)
CAT_SUBDISTRICTS == "Category:Cyberpunk_2077_Sub-districts"
CAT_OS_DECKS == "Category:Cyberpunk_2077_Cyberware_-_Cyberdecks"
CAT_OS_SAND == "Category:Cyberpunk_2077_Cyberware_-_Sandevistan_Operating_system"
CAT_OS_BERS == "Category:Cyberpunk_2077_Cyberware_-_Berserk_Operating_system"
CAT_ARMS == "Category:Cyberpunk_2077_Cyberware_-_Arms"
CAT_CONSUMABLES == "Category:Cyberpunk_2077_Consumables"
CHUNK == 40

\* all fetched categories, in the order the pipeline reads them
CatOrder == << CAT_SUBDISTRICTS, CAT_OS_DECKS, CAT_OS_SAND, CAT_OS_BERS,
               CAT_ARMS, CAT_CONSUMABLES >>
Cats == {CatOrder[i] : i \in 1..Len(CatOrder)}

\* the four stages of pipeline, in program order
Stages == << "subdistricts", "cyberware_os", "cyberware_arms", "consumables" >>
StageFlag == << "subdistricts", "os_", "arms", "consumables" >>
StageCats == << <<CAT_SUBDISTRICTS>>, <<CAT_OS_DECKS, CAT_OS_SAND, CAT_OS_BERS>>,
                <<CAT_ARMS>>, <<CAT_CONSUMABLES>> >>
StageKind == << "subdistrict", "cyberware", "cyberware", "item" >>
StageFile == << "subdistricts.json", "cyberware_os.json", "cyberware_arms.json",
                "consumables.json" >>
ManifestFile == "manifest.json"

\* argparse: five independent store_true flags
ArgSets == [all : BOOLEAN, subdistricts : BOOLEAN, os_ : BOOLEAN,
            arms : BOOLEAN, consumables : BOOLEAN]

\* a variant that forgets the global flag
StageSelected_flag_only(a, k) == a[StageFlag[k]]

\* `if all_ or <flag>` of stage k
StageSelected(a, k) == a.all \/ a[StageFlag[k]]

\* the next selected stage after stage k, Len(Stages) + 1 when there is none
NextStage(a, k) ==
    IF \E j \in (k + 1)..Len(Stages) : StageSelected(a, j)
    THEN CHOOSE j \in (k + 1)..Len(Stages) :
            StageSelected(a, j) /\ \A i \in (k + 1)..(j - 1) : ~StageSelected(a, i)
    ELSE Len(Stages) + 1

(***************************************************************************)
(* The remote wiki.  A page's content is a function of the page and its    *)
(* revision; its category list follows the category membership.            *)
(***************************************************************************)
RECURSIVE SortedSeq(_)
SortedSeq(S) ==
    IF S = {} THEN <<>>
    ELSE LET m == CHOOSE x \in S : \A y \in S : x <= y
         IN <<m>> \o SortedSeq(S \ {m})

\* a category title as the API spells it: the underscores of the name are spaces
RECURSIVE underscoresToSpaces(_)
underscoresToSpaces(s) ==
    IF Len(s) = 0 THEN ""
    ELSE IF Len(s) = 1 THEN (IF s = "_" THEN " " ELSE s)
    ELSE LET half == Len(s) \div 2
         IN underscoresToSpaces(SubSeq(s, 1, half))
            \o underscoresToSpaces(SubSeq(s, half + 1, Len(s)))

Digit(n) == CharAt(Digits, (n % 10) + 1)

RemoteBaseTitle(p) ==
    CASE p = 1 -> "Kabuki (2077)"
      [] p = 2 -> "Sandevistan Mk.1 (Cyberware)"
      [] OTHER -> "Bounce Back " \o Digit(p)

RemoteTitle(p, r) ==
    IF r = 1 THEN RemoteBaseTitle(p) ELSE RemoteBaseTitle(p) \o " rev" \o Digit(r)

RemoteWikitext(p, r) ==
    "{{Infobox|id=" \o Digit(p) \o "}}\n\n[[" \o RemoteBaseTitle(p) \o "|Page " \o Digit(p)
        \o "]] text of revision " \o Digit(r) \o "\n"

RemoteUrl(p, r) == "https://cyberpunk.fandom.com/wiki/" \o RemoteTitle(p, r)

\* categories a page carries besides the fetched ones
RemoteOwnCategories(p) ==
    CASE p = 1 -> << [title |-> "Category:Watson"] >>
      [] OTHER -> << >>

RECURSIVE memberCategories(_, _, _)
memberCategories(members, p, i) ==
    IF i > Len(CatOrder) THEN << >>
    ELSE (IF p \in members[CatOrder[i]]
          THEN << [title |-> underscoresToSpaces(CatOrder[i])] >>
          ELSE << >>)
         \o memberCategories(members, p, i + 1)

\* one entry of query.pages of the detail response
RemotePage(members, p, r) ==
    [ pageid |-> p,
      title |-> RemoteTitle(p, r),
      fullurl |-> RemoteUrl(p, r),
      revisions |-> << [revid |-> r, content |-> RemoteWikitext(p, r)] >>,
      categories |-> memberCategories(members, p, 1) \o RemoteOwnCategories(p) ]

NoMembers == [c \in Cats |-> {}]

\* every page is a sub-district; page 1 is also listed under Arms
WikiDistricts ==
    [NoMembers EXCEPT ![CAT_SUBDISTRICTS] = PageIds, ![CAT_ARMS] = {1}]

\* every page is a cyberdeck; page 1 is also listed as a Sandevistan operating
\* system; the last page is also a consumable
WikiCyberware ==
    [NoMembers EXCEPT ![CAT_OS_DECKS] = PageIds, ![CAT_OS_SAND] = {1},
                      ![CAT_CONSUMABLES] = {NumPages}]

\* every page is Arms cyberware; page 1 is also a sub-district and a
\* consumable; the last page is also listed as a Berserk operating system
WikiMixed ==
    [NoMembers EXCEPT ![CAT_ARMS] = PageIds, ![CAT_SUBDISTRICTS] = {1},
                      ![CAT_CONSUMABLES] = {1}, ![CAT_OS_BERS] = {NumPages}]

Memberships == {NoMembers, WikiDistricts, WikiCyberware, WikiMixed}

(***************************************************************************)
(* Persistence layer.  A table is the sequence of its rows in insertion    *)
(* order; ids are generated by the store, and no statement deletes.        *)
(***************************************************************************)
\* the least of a set of row indexes, 0 when it is empty: the row fetchone returns
FirstOf(S) == IF S = {} THEN 0 ELSE CHOOSE i \in S : \A j \in S : i <= j

\* SELECT ... WHERE page_id=:pid on a domain table
SelectByPageRef(rows, page_id) ==
    FirstOf({i \in 1..Len(rows) : rows[i].page_id = page_id})

SOURCE_SITE == "Fandom"
SOURCE_URL == "https://cyberpunk.fandom.com"
SOURCE_LICENSE == "CC BY-SA 3.0"
SOURCE_NOTES == "Data via MediaWiki API"

\* ensure_source: the new table and the id of the source row
ensure_source(srcs, site, url, license_txt, notes) ==
    LET res == FirstOf({i \in 1..Len(srcs) : srcs[i].site = site /\ srcs[i].url = url})
    IN IF res # 0
       THEN [sources |-> srcs, id |-> srcs[res].id]
       ELSE [sources |-> Append(srcs, [id |-> Len(srcs) + 1, site |-> site, url |-> url,
                                       license |-> license_txt, notes |-> notes]),
             id |-> Len(srcs) + 1]

\* a variant that refreshes the metadata of a changed page but keeps its body
upsert_page_keeps_body(pgs, src, p, now) ==
    LET row == FirstOf({i \in 1..Len(pgs) : pgs[i].pageid = p.pageid})
    IN IF row # 0
       THEN [pages |-> [pgs EXCEPT ![row] =
                          [@ EXCEPT !.title = p.title, !.slug = slugify(p.title),
                                    !.url = p.fullurl, !.revid = p.revisions[1].revid,
                                    !.last_seen_at = now]],
             pid |-> pgs[row].id,
             branch |-> IF pgs[row].revid # p.revisions[1].revid THEN "update" ELSE "touch"]
       ELSE [pages |-> Append(pgs, [id |-> Len(pgs) + 1, source_id |-> src, title |-> p.title,
                                    slug |-> slugify(p.title), url |-> p.fullurl, lang |-> "en",
                                    pageid |-> p.pageid, revid |-> p.revisions[1].revid,
                                    last_seen_at |-> now, wikitext |-> p.revisions[1].content,
                                    summary |-> parse_wikitext_to_summary(p.revisions[1].content)]),
             pid |-> Len(pgs) + 1, branch |-> "insert"]

\* a variant that inserts without looking the page up
upsert_page_always_inserts(pgs, src, p, now) ==
    [pages |-> Append(pgs, [id |-> Len(pgs) + 1, source_id |-> src, title |-> p.title,
                            slug |-> slugify(p.title), url |-> p.fullurl, lang |-> "en",
                            pageid |-> p.pageid, revid |-> p.revisions[1].revid,
                            last_seen_at |-> now, wikitext |-> p.revisions[1].content,
                            summary |-> parse_wikitext_to_summary(p.revisions[1].content)]),
     pid |-> Len(pgs) + 1, branch |-> "insert"]

\* upsert_page: the new table, the id of the page's row and the branch taken
upsert_page(pgs, src, p, now) ==
    LET pageid == p.pageid
        title == p.title
        fullurl == p.fullurl
        lang == "en"
        revs == p.revisions
        revid == revs[1].revid
        wikitext == revs[1].content
        summary == parse_wikitext_to_summary(wikitext)
        row == FirstOf({i \in 1..Len(pgs) : pgs[i].pageid = pageid})
    IN IF row # 0
       THEN LET pid == pgs[row].id
                old_revid == pgs[row].revid
            IN IF old_revid # revid
               THEN [pages |-> [i \in 1..Len(pgs) |->
                                  IF pgs[i].id = pid
                                  THEN [pgs[i] EXCEPT !.title = title, !.slug = slugify(title),
                                                      !.url = fullurl, !.lang = lang,
                                                      !.revid = revid, !.last_seen_at = now,
                                                      !.wikitext = wikitext, !.summary = summary]
                                  ELSE pgs[i]],
                     pid |-> pid, branch |-> "update"]
               ELSE [pages |-> [i \in 1..Len(pgs) |->
                                  IF pgs[i].id = pid
                                  THEN [pgs[i] EXCEPT !.last_seen_at = now]
                                  ELSE pgs[i]],
                     pid |-> pid, branch |-> "touch"]
       ELSE [pages |-> Append(pgs, [id |-> Len(pgs) + 1, source_id |-> src, title |-> title,
                                    slug |-> slugify(title), url |-> fullurl, lang |-> lang,
                                    pageid |-> pageid, revid |-> revid, last_seen_at |-> now,
                                    wikitext |-> wikitext, summary |-> summary]),
             pid |-> Len(pgs) + 1, branch |-> "insert"]

\* upsert_subdistrict: the new table, and whether the statement raised.  The
\* UPDATE names the bind parameter :parent but is given parent_district, so
\* the statement is rejected before it runs.
upsert_subdistrict(rows, page_id, page_title, cats, summary) ==
    LET name == strip(remove(page_title, "(2077)"), Whitespace)
        parent == extract_parent_district_from_categories(cats)
        desc == summary
        existing == SelectByPageRef(rows, page_id)
    IN IF existing # 0
       THEN [rows |-> rows, raised |-> TRUE]
       ELSE [rows |-> Append(rows, [id |-> Len(rows) + 1, name |-> name,
                                    parent_district |-> parent, description |-> desc,
                                    page_id |-> page_id, aliases |-> None]),
             raised |-> FALSE]

upsert_cyberware(rows, page_id, page_title, cats, summary) ==
    LET slot == infer_slot_from_categories(cats)
        name == strip(remove(page_title, "(Cyberware)"), Whitespace)
        existing == SelectByPageRef(rows, page_id)
    IN IF existing # 0
       THEN [rows |-> [i \in 1..Len(rows) |->
                         IF rows[i].page_id = page_id
                         THEN [rows[i] EXCEPT !.name = name, !.slot = slot,
                                              !.description = summary]
                         ELSE rows[i]],
             raised |-> FALSE]
       ELSE [rows |-> Append(rows, [id |-> Len(rows) + 1, name |-> name, slot |-> slot,
                                    manufacturer |-> None, rarity_min |-> None,
                                    rarity_max |-> None, description |-> summary,
                                    page_id |-> page_id]),
             raised |-> FALSE]

upsert_item(rows, page_id, page_title, cats, summary) ==
    LET category == infer_item_category(cats)
        subcategory == None
        name == strip(page_title, Whitespace)
        existing == SelectByPageRef(rows, page_id)
    IN IF existing # 0
       THEN [rows |-> [i \in 1..Len(rows) |->
                         IF rows[i].page_id = page_id
                         THEN [rows[i] EXCEPT !.name = name, !.category = category,
                                              !.subcategory = subcategory,
                                              !.description = summary]
                         ELSE rows[i]],
             raised |-> FALSE]
       ELSE [rows |-> Append(rows, [id |-> Len(rows) + 1, name |-> name,
                                    category |-> category, subcategory |-> subcategory,
                                    description |-> summary, page_id |-> page_id]),
             raised |-> FALSE]

(***************************************************************************)
(* HTTP.  mw_get raises HTTPError on a 4xx or 5xx status                   *)
(* (raise_for_status); any other status without a JSON body makes r.json() *)
(* raise a ValueError.  Only a 200 response carries the JSON document.     *)
(***************************************************************************)
Statuses == {200, 304, 503}

\* a variant without raise_for_status that reads whatever body came
mw_get_ignores_status(status) == None

\* the exception mw_get raises for a response status, None when it returns
mw_get(status) ==
    IF status >= 400 /\ status < 600 THEN "HTTPError"
    ELSE IF status # 200 THEN "Error"
    ELSE None

(***************************************************************************)
(* State.                                                                  *)
(***************************************************************************)
VARIABLES
    remoteRev,      \* remote wiki: current revision of each page
    remoteMembers,  \* remote wiki: members of each fetched category
    schema,         \* store: the tables exist
    sources,        \* store: table sources
    pages,          \* store: table pages
    subdistricts,   \* store: table subdistricts
    cyberware,      \* store: table cyberware
    items,          \* store: table items
    files,          \* output directory: file name -> content
    pc,             \* position of the script
    err,            \* the exception main caught in this run, None when none
    args,           \* the parsed command line
    runNo,          \* number of the run, also the value of utcnow() during it
    src_id,         \* pipeline: id of the source row
    stage,          \* pipeline: index of the stage being executed
    catIx,          \* pipeline: index of the category within the stage
    out,            \* get_category_members: members listed so far
    chunkAt,        \* get_pages_details_by_ids: start of the next chunk
    fetched,        \* fetch_and_upsert_group: fetched pages not yet processed
    cur,            \* fetch_and_upsert_group: page being processed
    snapshot,       \* fetch_and_upsert_group: snapshot built so far
    group_snap,     \* pipeline: snapshot of the stage
    out_manifest,   \* pipeline: manifest built so far
    httpCalls,      \* HTTP requests sent in this run
    httpFailed,     \* an HTTP request of this run got a status other than 2xx
    written,        \* files written in this run
    stageLog,       \* per stage executed in this run: ids listed, rows before/after
    categories,     \* classification: the category list of a page
    slot,           \* classification: result of infer_slot_from_categories
    parent          \* classification: result of extract_parent_district_from_categories

remote == <<remoteRev, remoteMembers>>
store == <<schema, sources, pages, subdistricts, cyberware, items>>
group == <<out, chunkAt, fetched, cur, snapshot>>
vars == <<remoteRev, remoteMembers, schema, sources, pages, subdistricts, cyberware,
          items, files, pc, err, args, runNo, src_id, stage, catIx, out, chunkAt,
          fetched, cur, snapshot, group_snap, out_manifest, httpCalls, httpFailed,
          written, stageLog, categories, slot, parent>>
classify == <<categories, slot, parent>>
\* everything but the classification variables
pipelineVars == <<remoteRev, remoteMembers, schema, sources, pages, subdistricts, cyberware,
                  items, files, pc, err, args, runNo, src_id, stage, catIx, out, chunkAt,
                  fetched, cur, snapshot, group_snap, out_manifest, httpCalls, httpFailed,
                  written, stageLog>>

NoArgs == [all |-> FALSE, subdistricts |-> FALSE, os_ |-> FALSE, arms |-> FALSE,
           consumables |-> FALSE]
NoCur == [pageid |-> 0, pid |-> 0, branch |-> None]
NoManifest == [generated_at |-> 0, groups |-> << >>]
Pending == "<pending>"

InitPipeline(wikis) ==
    /\ remoteRev = [p \in PageIds |-> 1]
    /\ remoteMembers \in wikis
    /\ schema = FALSE
    /\ sources = << >>
    /\ pages = << >>
    /\ subdistricts = << >>
    /\ cyberware = << >>
    /\ items = << >>
    /\ files = << >>
    /\ pc = "idle"
    /\ err = None
    /\ args = NoArgs
    /\ runNo = 0
    /\ src_id = 0
    /\ stage = 0
    /\ catIx = 0
    /\ out = << >>
    /\ chunkAt = 0
    /\ fetched = << >>
    /\ cur = NoCur
    /\ snapshot = << >>
    /\ group_snap = << >>
    /\ out_manifest = NoManifest
    /\ httpCalls = 0
    /\ httpFailed = FALSE
    /\ written = {}
    /\ stageLog = << >>

Init ==
    /\ InitPipeline(Memberships)
    /\ categories = << >>
    /\ slot = Pending
    /\ parent = Pending

(***************************************************************************)
(* Control flow shared by the steps of pipeline.                           *)
(***************************************************************************)
\* enter stage k (`if all_ or ...` chain), or go on to write the manifest
GotoStage(k, log) ==
    /\ stage' = k
    /\ group_snap' = << >>
    /\ IF k <= Len(Stages)
       THEN /\ pc' = "members"
            /\ catIx' = 1
            /\ stageLog' = (Stages[k] :> [members |-> {}, before |-> Len(pages),
                                          after |-> Len(pages)]) @@ log
       ELSE /\ pc' = "manifest"
            /\ catIx' = 0
            /\ stageLog' = log

\* fetch_and_upsert_group returned snap for category catIx of the stage
GroupReturns(snap) ==
    /\ group_snap' = group_snap \o snap
    /\ stage' = stage
    /\ out' = << >>
    /\ chunkAt' = 0
    /\ fetched' = << >>
    /\ cur' = NoCur
    /\ snapshot' = << >>
    /\ IF catIx < Len(StageCats[stage])
       THEN pc' = "members" /\ catIx' = catIx + 1
       ELSE pc' = "snapshot" /\ catIx' = catIx

\* an exception leaves pipeline; main catches it, prints one line and returns
Raise(kind) ==
    /\ pc' = "exit"
    /\ err' = kind
    /\ UNCHANGED <<stage, catIx, group_snap, out, chunkAt, fetched, cur, snapshot>>

\* one request of mw_get: the status the server answers with is an input
Request(status) ==
    /\ httpCalls' = httpCalls + 1
    /\ httpFailed' = (httpFailed \/ status \notin 200..299)

\* dict.update: a key already present keeps its place and takes the new value
RECURSIVE update(_, _)
update(d, new) ==
    IF Len(new) = 0 THEN d
    ELSE LET e == Head(new)
             at == FirstOf({i \in 1..Len(d) : d[i].pageid = e.pageid})
         IN update(IF at # 0 THEN [d EXCEPT ![at] = e] ELSE Append(d, e), Tail(new))

(***************************************************************************)
(* main and pipeline.                                                      *)
(***************************************************************************)
\* main: parse the flags and call pipeline (every run is a new process)
StartRun(a) ==
    /\ pc = "idle"
    /\ runNo < MaxRuns
    /\ args' = a
    /\ runNo' = runNo + 1
    /\ pc' = "setup"
    /\ UNCHANGED <<remote, store, files, err, src_id, stage, catIx, group, group_snap,
                   out_manifest, httpCalls, httpFailed, written, stageLog>>
    /\ UNCHANGED classify

\* main returns and the process ends: its memory is gone, store and files stay
MainReturns ==
    /\ pc = "exit"
    /\ pc' = "idle"
    /\ err' = None
    /\ args' = NoArgs
    /\ src_id' = 0
    /\ stage' = 0
    /\ catIx' = 0
    /\ out' = << >>
    /\ chunkAt' = 0
    /\ fetched' = << >>
    /\ cur' = NoCur
    /\ snapshot' = << >>
    /\ group_snap' = << >>
    /\ out_manifest' = NoManifest
    /\ httpCalls' = 0
    /\ httpFailed' = FALSE
    /\ written' = {}
    /\ stageLog' = << >>
    /\ UNCHANGED <<remote, store, files, runNo>>
    /\ UNCHANGED classify

\* pipeline up to the first stage: get_engine, init_schema, ensure_source, out_manifest
PipelineSetup ==
    /\ pc = "setup"
    /\ schema' = TRUE
    /\ LET src == ensure_source(sources, SOURCE_SITE, SOURCE_URL, SOURCE_LICENSE, SOURCE_NOTES)
       IN sources' = src.sources /\ src_id' = src.id
    /\ out_manifest' = [generated_at |-> runNo, groups |-> << >>]
    /\ GotoStage(NextStage(args, 0), stageLog)
    /\ UNCHANGED <<remote, pages, subdistricts, cyberware, items, files, err, args, runNo,
                   group, httpCalls, httpFailed, written>>
    /\ UNCHANGED classify

\* get_category_members: one turn of its loop, that is one request
ListMembers ==
    /\ pc = "members"
    /\ \E status \in Statuses :
        /\ Request(status)
        /\ IF mw_get(status) # None
           THEN Raise(mw_get(status)) /\ UNCHANGED stageLog
           ELSE LET listing == SortedSeq(remoteMembers[StageCats[stage][catIx]])
                    upto == IF Len(out) + ServerLimit < Len(listing)
                            THEN Len(out) + ServerLimit ELSE Len(listing)
                    batch == SubSeq(listing, Len(out) + 1, upto)
                    all == out \o batch
                    name == Stages[stage]
                IN /\ stageLog' = [stageLog EXCEPT ![name].members =
                                       @ \cup {batch[i] : i \in 1..Len(batch)}]
                   /\ err' = err
                   /\ IF upto < Len(listing)
                      THEN \* "continue" in data
                           /\ out' = all
                           /\ pc' = "members"
                           /\ UNCHANGED <<stage, catIx, group_snap, chunkAt, fetched, cur,
                                          snapshot>>
                      ELSE IF Len(all) = 0
                      THEN \* fetch_and_upsert_group: no page ids, no request, empty snapshot
                           GroupReturns(<< >>)
                      ELSE /\ out' = all
                           /\ pc' = "details"
                           /\ chunkAt' = 0
                           /\ fetched' = << >>
                           /\ UNCHANGED <<stage, catIx, group_snap, cur, snapshot>>
    /\ UNCHANGED <<remote, store, files, args, runNo, src_id, out_manifest, written>>
    /\ UNCHANGED classify

\* get_pages_details_by_ids: one chunk, that is one request
FetchDetails ==
    /\ pc = "details"
    /\ \E status \in Statuses :
        /\ Request(status)
        /\ IF mw_get(status) # None
           THEN Raise(mw_get(status))
           ELSE LET upto == IF chunkAt + CHUNK < Len(out) THEN chunkAt + CHUNK ELSE Len(out)
                    chunk == SubSeq(out, chunkAt + 1, upto)
                    data == [i \in 1..Len(chunk) |->
                                RemotePage(remoteMembers, chunk[i], remoteRev[chunk[i]])]
                IN /\ fetched' = update(fetched, data)
                   /\ chunkAt' = chunkAt + CHUNK
                   /\ pc' = IF chunkAt + CHUNK < Len(out) THEN "details" ELSE "page"
                   /\ err' = err
                   /\ UNCHANGED <<stage, catIx, group_snap, out, cur, snapshot>>
    /\ UNCHANGED <<remote, store, files, args, runNo, src_id, out_manifest, written, stageLog>>
    /\ UNCHANGED classify

\* fetch_and_upsert_group: upsert_page of the next fetched page
UpsertPage ==
    /\ pc = "page"
    /\ LET p == Head(fetched)
           r == upsert_page(pages, src_id, p, runNo)
       IN /\ pages' = r.pages
          /\ cur' = [pageid |-> p.pageid, pid |-> r.pid, branch |-> r.branch]
    /\ pc' = "domain"
    /\ UNCHANGED <<remote, schema, sources, subdistricts, cyberware, items, files, err, args,
                   runNo, src_id, stage, catIx, out, chunkAt, fetched, snapshot, group_snap,
                   out_manifest, httpCalls, httpFailed, written, stageLog>>
    /\ UNCHANGED classify

\* fetch_and_upsert_group after the domain upsert of the page: the snapshot
\* entry, then the next page or the return
AfterDomain(raised) ==
    IF raised
    THEN Raise("DBError")
    ELSE LET p == Head(fetched)
             entry == [title |-> p.title, pageid |-> p.pageid,
                       revid |-> p.revisions[1].revid, url |-> p.fullurl]
         IN /\ err' = err
            /\ IF Len(fetched) = 1
               THEN GroupReturns(Append(snapshot, entry))
               ELSE /\ snapshot' = Append(snapshot, entry)
                    /\ fetched' = Tail(fetched)
                    /\ cur' = NoCur
                    /\ pc' = "page"
                    /\ UNCHANGED <<stage, catIx, group_snap, out, chunkAt>>

CurSummary == parse_wikitext_to_summary(Head(fetched).revisions[1].content)

UpsertSubdistrict ==
    /\ pc = "domain"
    /\ StageKind[stage] = "subdistrict"
    /\ LET p == Head(fetched)
           r == upsert_subdistrict(subdistricts, cur.pid, p.title, p.categories, CurSummary)
       IN subdistricts' = r.rows /\ AfterDomain(r.raised)
    /\ UNCHANGED <<remote, schema, sources, pages, cyberware, items, files, args, runNo,
                   src_id, out_manifest, httpCalls, httpFailed, written, stageLog>>
    /\ UNCHANGED classify

UpsertCyberware ==
    /\ pc = "domain"
    /\ StageKind[stage] = "cyberware"
    /\ LET p == Head(fetched)
           r == upsert_cyberware(cyberware, cur.pid, p.title, p.categories, CurSummary)
       IN cyberware' = r.rows /\ AfterDomain(r.raised)
    /\ UNCHANGED <<remote, schema, sources, pages, subdistricts, items, files, args, runNo,
                   src_id, out_manifest, httpCalls, httpFailed, written, stageLog>>
    /\ UNCHANGED classify

UpsertItem ==
    /\ pc = "domain"
    /\ StageKind[stage] = "item"
    /\ LET p == Head(fetched)
           r == upsert_item(items, cur.pid, p.title, p.categories, CurSummary)
       IN items' = r.rows /\ AfterDomain(r.raised)
    /\ UNCHANGED <<remote, schema, sources, pages, subdistricts, cyberware, files, args,
                   runNo, src_id, out_manifest, httpCalls, httpFailed, written, stageLog>>
    /\ UNCHANGED classify

\* pipeline: write the stage's snapshot file and record its count
WriteSnapshot ==
    /\ pc = "snapshot"
    /\ files' = (StageFile[stage] :> group_snap) @@ files
    /\ written' = written \cup {StageFile[stage]}
    /\ out_manifest' = [out_manifest EXCEPT !.groups =
                           (Stages[stage] :> [count |-> Len(group_snap)]) @@ @]
    /\ GotoStage(NextStage(args, stage),
                 [stageLog EXCEPT ![Stages[stage]].after = Len(pages)])
    /\ UNCHANGED <<remote, store, err, args, runNo, src_id, group, httpCalls, httpFailed>>
    /\ UNCHANGED classify

\* a variant that returns without writing the file
WriteManifest_skipped ==
    /\ pc = "manifest"
    /\ pc' = "exit"
    /\ UNCHANGED <<remote, store, files, written, err, args, runNo, src_id, stage, catIx,
                   group, group_snap, out_manifest, httpCalls, httpFailed, stageLog>>
    /\ UNCHANGED classify

\* pipeline: write manifest.json and return to main
WriteManifest ==
    /\ pc = "manifest"
    /\ files' = (ManifestFile :> out_manifest) @@ files
    /\ written' = written \cup {ManifestFile}
    /\ pc' = "exit"
    /\ UNCHANGED <<remote, store, err, args, runNo, src_id, stage, catIx, group, group_snap,
                   out_manifest, httpCalls, httpFailed, stageLog>>
    /\ UNCHANGED classify

\* the wiki: a page is edited between two runs
RemoteEdit(p) ==
    /\ pc = "idle"
    /\ runNo < MaxRuns
    /\ remoteRev[p] < MaxRev
    /\ remoteRev' = [remoteRev EXCEPT ![p] = @ + 1]
    /\ UNCHANGED <<remoteMembers, store, files, pc, err, args, runNo, src_id, stage, catIx,
                   group, group_snap, out_manifest, httpCalls, httpFailed, written, stageLog>>
    /\ UNCHANGED classify

Next ==
    \/ \E a \in ArgSets : StartRun(a)
    \/ PipelineSetup
    \/ ListMembers
    \/ FetchDetails
    \/ UpsertPage
    \/ UpsertSubdistrict
    \/ UpsertCyberware
    \/ UpsertItem
    \/ WriteSnapshot
    \/ WriteManifest
    \/ MainReturns
    \/ \E p \in PageIds : RemoteEdit(p)

Spec == Init /\ [][Next]_vars

(***************************************************************************)
(* The classification heuristics on their own: the category list is drawn  *)
(* from CategoryLists, and each function is applied to it once.            *)
(***************************************************************************)
MaxCats == 3

CAT_OS == "Category:Cyberpunk_2077_Cyberware_-_Operating_System"

CategoryTitles ==
    { underscoresToSpaces(CAT_ARMS), underscoresToSpaces(CAT_OS),
      underscoresToSpaces(CAT_OS_DECKS), underscoresToSpaces(CAT_OS_SAND),
      underscoresToSpaces(CAT_OS_BERS), "Category:Watson City Center subdistricts",
      "Category:HEYWOOD locations", "Category:City Center", "Category:Sandevistan",
      "" }

CategoryLists ==
    UNION { [1..n -> {[title |-> t] : t \in CategoryTitles}] : n \in 0..MaxCats }

InitClassify ==
    /\ InitPipeline({WikiDistricts})
    /\ categories \in CategoryLists
    /\ slot = Pending
    /\ parent = Pending

InferSlot ==
    /\ slot = Pending
    /\ slot' = infer_slot_from_categories(categories)
    /\ UNCHANGED <<pipelineVars, categories, parent>>

ExtractParent ==
    /\ parent = Pending
    /\ parent' = extract_parent_district_from_categories(categories)
    /\ UNCHANGED <<pipelineVars, categories, slot>>

NextClassify == InferSlot \/ ExtractParent

SpecClassify == InitClassify /\ [][NextClassify]_vars

(***************************************************************************)
(* C9.  infer_slot_from_categories returns the label of the first rule, in *)
(* the order arms, operating system, cyberdecks, sandevistan, berserk,     *)
(* whose substring occurs in the lower-cased joined titles, and none when  *)
(* no rule matches or the list is empty; an Arms title together with an    *)
(* Operating System title, or with a Sandevistan title, gives "Arms".      *)
(***************************************************************************)
SlotRules ==
    << <<"arms", "Arms">>,
       <<"operating system", "Operating System">>,
       <<"cyberdecks", "Operating System / Cyberdeck">>,
       <<"sandevistan", "Operating System / Sandevistan">>,
       <<"berserk", "Operating System / Berserk">> >>

HasTitle(cats, t) == \E i \in 1..Len(cats) : cats[i].title = t

C9_FirstRuleWins ==
    slot # Pending =>
        LET joined == lower(join(" | ", titles(categories)))
            matching == {i \in 1..Len(SlotRules) : Contains(joined, SlotRules[i][1])}
        IN /\ (Len(categories) = 0 \/ matching = {}) => slot = None
           /\ matching # {} =>
                \E i \in matching : /\ \A j \in matching : i <= j
                                    /\ slot = SlotRules[i][2]
           /\ ( /\ HasTitle(categories, underscoresToSpaces(CAT_ARMS))
                /\ \/ HasTitle(categories, underscoresToSpaces(CAT_OS))
                   \/ HasTitle(categories, "Category:Sandevistan") ) => slot = "Arms"

C9_Witness ==
    /\ slot = "Arms"
    /\ HasTitle(categories, underscoresToSpaces(CAT_ARMS))
    /\ HasTitle(categories, underscoresToSpaces(CAT_OS))
    /\ HasTitle(categories, "Category:Sandevistan")

(***************************************************************************)
(* C10.  extract_parent_district_from_categories returns the first entry   *)
(* of the district vocabulary whose lower-case form is a substring of the  *)
(* lower-case form of some category title, whatever the order of the       *)
(* categories, and none when no entry matches; a title "Watson City Center *)
(* subdistricts" gives "Watson".                                           *)
(***************************************************************************)
Reverse(seq) == [i \in 1..Len(seq) |-> seq[Len(seq) + 1 - i]]

C10_FirstVocabularyEntryWins ==
    parent # Pending =>
        LET mentioned == {k \in 1..Len(KNOWN) :
                            \E i \in 1..Len(categories) :
                                Contains(lower(categories[i].title), lower(KNOWN[k]))}
        IN /\ mentioned = {} => parent = None
           /\ mentioned # {} =>
                \E k \in mentioned : /\ \A j \in mentioned : k <= j
                                     /\ parent = KNOWN[k]
           /\ extract_parent_district_from_categories(Reverse(categories)) = parent
           /\ HasTitle(categories, "Category:Watson City Center subdistricts")
                => parent = "Watson"

C10_Witness ==
    /\ parent = "Watson"
    /\ Len(categories) > 1
    /\ categories[1].title = "Category:City Center"
    /\ HasTitle(categories, "Category:Watson City Center subdistricts")

(***************************************************************************)
(* Vocabulary of the properties of the pipeline.                           *)
(***************************************************************************)
\* the table a stage of the given kind writes its domain rows to
DomainTable(kind, subs, cyb, its) ==
    CASE kind = "subdistrict" -> subs
      [] kind = "cyberware" -> cyb
      [] OTHER -> its

\* the classification field of a domain row
ClassField(kind, row) ==
    CASE kind = "subdistrict" -> row.parent_district
      [] kind = "cyberware" -> row.slot
      [] OTHER -> row.category

RowsOfPage(rows, pid) == {i \in 1..Len(rows) : rows[i].page_id = pid}

\* every row of the table is still there, under its id
Kept(rows, rowsAfter) ==
    \A i \in 1..Len(rows) : \E j \in 1..Len(rowsAfter) : rowsAfter[j].id = rows[i].id

\* the stages the command line asks for
Requested(a) ==
    {name \in {"subdistricts", "cyberware_os", "cyberware_arms", "consumables"} :
        \/ a.all
        \/ name = "subdistricts" /\ a.subdistricts
        \/ name = "cyberware_os" /\ a.os_
        \/ name = "cyberware_arms" /\ a.arms
        \/ name = "consumables" /\ a.consumables}

(***************************************************************************)
(* C1.  When a stage is run again on a page it stored before and the       *)
(* remote revision id equals the stored one, processing the page raises no *)
(* error, the page's title, slug, url, revid, wikitext and summary and the *)
(* description of its domain row stay as they are, and last_seen_at        *)
(* becomes the time of the new run.                                        *)
(***************************************************************************)
C1_RerunOnUnchangedRevisionIsIdempotent ==
    [][ LET kind == StageKind[stage]
            table == DomainTable(kind, subdistricts, cyberware, items)
            tableAfter == DomainTable(kind, subdistricts', cyberware', items')
        IN /\ pc = "page" =>
                LET p == Head(fetched)
                IN \A i \in 1..Len(pages) :
                      ( /\ pages[i].pageid = p.pageid
                        /\ pages[i].revid = p.revisions[1].revid
                        /\ RowsOfPage(table, pages[i].id) # {} )
                      => /\ pages'[i].title = pages[i].title
                         /\ pages'[i].slug = pages[i].slug
                         /\ pages'[i].url = pages[i].url
                         /\ pages'[i].revid = pages[i].revid
                         /\ pages'[i].wikitext = pages[i].wikitext
                         /\ pages'[i].summary = pages[i].summary
                         /\ pages'[i].last_seen_at = runNo
           /\ (pc = "domain" /\ cur.branch = "touch") =>
                \A i \in RowsOfPage(table, cur.pid) :
                    /\ err' = None
                    /\ tableAfter[i].description = table[i].description
      ]_vars

(***************************************************************************)
(* C2.  When upsert_page meets a stored page whose revision id differs     *)
(* from the remote one, the row's title, slug, url, revid, wikitext and    *)
(* summary become those of the remote page, its id and pageid stay, and no *)
(* row is added.                                                           *)
(***************************************************************************)
C2_ChangedRevisionReplacesContent ==
    [][ pc = "page" =>
          LET p == Head(fetched)
              rev == p.revisions[1]
          IN (\E i \in 1..Len(pages) : pages[i].pageid = p.pageid /\ pages[i].revid # rev.revid)
             => /\ Len(pages') = Len(pages)
                /\ \A i \in 1..Len(pages) :
                      pages[i].pageid = p.pageid =>
                         /\ pages'[i].title = p.title
                         /\ pages'[i].slug = slugify(p.title)
                         /\ pages'[i].url = p.fullurl
                         /\ pages'[i].revid = rev.revid
                         /\ pages'[i].wikitext = rev.content
                         /\ pages'[i].summary = parse_wikitext_to_summary(rev.content)
                         /\ pages'[i].id = pages[i].id
                         /\ pages'[i].pageid = pages[i].pageid
      ]_vars

C2_Witness ==
    /\ pc = "domain"
    /\ cur.branch = "update"
    /\ \E i \in 1..Len(pages) :
          /\ pages[i].id = cur.pid
          /\ pages[i].revid = 2
          /\ pages[i].title = RemoteTitle(cur.pageid, 2)

(***************************************************************************)
(* C3.  The pages table never holds two rows with one remote page id, and  *)
(* no step removes a row of pages, subdistricts, cyberware or items.       *)
(***************************************************************************)
C3_OneRowPerPageAndNothingDeleted ==
    [][ /\ \A i, j \in 1..Len(pages') : pages'[i].pageid = pages'[j].pageid => i = j
        /\ Kept(pages, pages')
        /\ Kept(subdistricts, subdistricts')
        /\ Kept(cyberware, cyberware')
        /\ Kept(items, items')
      ]_vars

\* second run, a page listed in two categories of one stage is met again
C3_Witness ==
    /\ runNo = 2
    /\ pc = "domain"
    /\ stage = 2
    /\ catIx = 2
    /\ cur.branch = "touch"
    /\ Len(pages) = NumPages
    /\ Len(cyberware) = NumPages

(***************************************************************************)
(* C4.  A domain upsert inserts exactly one row when the table has none    *)
(* for the page reference; when it has one, the call succeeds and sets the *)
(* name, the classification field and the description of that row without  *)
(* inserting; so each table has at most one row per page reference.        *)
(***************************************************************************)
C4_DomainUpsertInsertsOrUpdates ==
    [][ pc = "domain" =>
          LET kind == StageKind[stage]
              table == DomainTable(kind, subdistricts, cyberware, items)
              tableAfter == DomainTable(kind, subdistricts', cyberware', items')
              existing == RowsOfPage(table, cur.pid)
          IN /\ existing = {} =>
                  /\ Len(tableAfter) = Len(table) + 1
                  /\ tableAfter[Len(tableAfter)].page_id = cur.pid
                  /\ \A i \in 1..Len(table) : tableAfter[i] = table[i]
             /\ existing # {} =>
                  /\ err' = None
                  /\ Len(tableAfter) = Len(table)
                  /\ \A i \in existing :
                        /\ tableAfter[i].description = CurSummary
                        /\ ClassField(kind, tableAfter[i]) =
                              ( CASE kind = "subdistrict" ->
                                       extract_parent_district_from_categories(
                                           Head(fetched).categories)
                                  [] kind = "cyberware" ->
                                       infer_slot_from_categories(Head(fetched).categories)
                                  [] OTHER -> infer_item_category(Head(fetched).categories) )
                        /\ tableAfter[i].id = table[i].id
                        /\ tableAfter[i].page_id = cur.pid
             /\ \A i, j \in 1..Len(tableAfter) :
                  tableAfter[i].page_id = tableAfter[j].page_id => i = j
      ]_vars

(***************************************************************************)
(* C5 as stated.  Every run ends with the manifest file written, after the *)
(* last stage or after the abort, holding the generation time and a count  *)
(* for each stage that completed.                                          *)
(***************************************************************************)
CompletedStages == {Stages[k] : k \in {j \in 1..Len(Stages) : StageFile[j] \in written}}

C7_StageCountsDistinctMembers ==
    \A k \in 1..Len(Stages) :
        (Stages[k] \in DOMAIN out_manifest.groups /\ stageLog[Stages[k]].before = 0) =>
            LET n == Cardinality(stageLog[Stages[k]].members)
            IN /\ stageLog[Stages[k]].after = n
               /\ Len(files[StageFile[k]]) = n
               /\ out_manifest.groups[Stages[k]].count = n

====
